---- MODULE Spec2Model ----
(***************************************************************************)
(* Model of imagegrabber (src/main.go): one crawler (fetchFlickrData, run  *)
(* on the main goroutine), a pool of grabPictures workers, the signal      *)
(* goroutine and main's drain loop, communicating through the buffered     *)
(* channel grab_pictures, the channel stop and the shared flag finishing.  *)
(***************************************************************************)
EXTENDS Integers, Sequences, FiniteSets, TLC

\* ---------------------------------------------------------------- bounds
\* -concurrency flag (main.go:52): number of grabPictures goroutines.
concurrency == 2
\* -max_pages flag (main.go:51).
maxPages == 2
\* Largest number of photos in one decoded result page.
MaxPhotos == 2
\* Channel slots per worker; main.go:74 uses 100, scaled down here so that a
\* full channel is reachable.
SlotsPerWorker == 1
\* Most disturbances the environment produces in one run: an OS signal, or a
\* dequeued item of which attempts fail (http.Get or os.Create returning an
\* error, in any pattern over the item's attempts).
MaxDisturbances == 1

\* ------------------------------------------------------ program constants
\* Retry limit of the download loop (main.go:204).
MaxRetries == 5
\* Factor of the backoff sleep (main.go:217).
BackoffFactor == 2

\* -size flag (main.go:50) and the variant labels a size mapping may hold.
sizeWanted == "o"
Labels == {"o", "m"}
\* The key sets a decoded Sizes map may have: with and without sizeWanted.
KeySets == {{"m"}, {"o", "m"}}

Workers == 1 .. concurrency
QueueCap == SlotsPerWorker * concurrency

\* A FlickrResultPhotoSize value, identified by the map entry it was decoded
\* into: result page, index of the photo in Photos, key in Sizes.
Sized(p, i, l) == <<p, i, l>>
NoItem == <<0, 0, "">>

\* The FlickrResult values json.Unmarshal can produce: Photos is a sequence
\* of at most MaxPhotos photos, each given by the key set of its Sizes map.
PhotoLists == UNION {[1 .. n -> KeySets] : n \in 0 .. MaxPhotos}

VARIABLES
    procState,   \* "running", "exited" (main returned), "panicked", "fatal" (log.Fatalf)
    stop,        \* TRUE once the channel stop is closed
    closes,      \* number of close(stop) calls executed
    finishing,   \* the shared flag written by the signal goroutine
    signals,     \* number of signals buffered in the channel signals (0 or 1)
    sigpc,       \* signal goroutine: "poll", "close", "done"
    mpc,         \* main: "crawl", "check", "len", "wait"
    cpc,         \* fetchFlickrData: "page", "request", "items", "returned"
    page,        \* loop variable of fetchFlickrData
    photos,      \* result.Photos of the page being processed
    idx,         \* index of the next photo of the range loop
    queue,       \* contents of the channel grab_pictures
    wg,          \* counter of the WaitGroup
    wpc,         \* per worker: "select", "get", "giveup", "done"
    item,        \* per worker: the dequeued value (sized)
    retries,     \* per worker: loop variable of the retry loop
    \* ---- observation (history) variables
    sigDelivered,  \* an OS signal has been delivered to the process
    requested,     \* highest page for which client.Do was called
    crawlEnd,      \* why fetchFlickrData ended
    endPage,       \* the page at which it ended
    matched,       \* Sizes[sizeWanted] entries of the photos ranged over, in order
    enq,           \* every value sent on grab_pictures, in order
    dropped,       \* values offered to a full channel and discarded
    handed,        \* per value: how many times it was received by a worker
    files,         \* values whose body was written to a file
    attempts,      \* per worker: http.Get calls for the current item
    sleeps,        \* per worker: backoff sleeps for the current item, in order
    dlFailed,      \* some http.Get returned an error
    createFailed,  \* some os.Create returned an error
    faultyItems    \* number of items of which some attempt failed

vars == <<procState, stop, closes, finishing, signals, sigpc, mpc, cpc, page,
          photos, idx, queue, wg, wpc, item, retries, sigDelivered, requested,
          crawlEnd, endPage, matched, enq, dropped, handed, files, attempts,
          sleeps, dlFailed, createFailed, faultyItems>>

sigVars   == <<signals, sigpc, sigDelivered>>
crawlVars == <<cpc, page, photos, idx, requested, crawlEnd, endPage, matched,
               enq, dropped>>
workVars  == <<wg, wpc, item, retries, handed, files, attempts, sleeps,
               dlFailed, createFailed, faultyItems>>

AllSized == {Sized(p, i, l) : p \in 1 .. maxPages, i \in 1 .. MaxPhotos, l \in Labels}

Init ==
    /\ procState = "running"
    /\ stop = FALSE
    /\ closes = 0
    /\ finishing = FALSE
    /\ signals = 0
    /\ sigpc = "poll"
    /\ mpc = "crawl"
    /\ cpc = "page"
    /\ page = 1
    /\ photos = <<>>
    /\ idx = 1
    /\ queue = <<>>
    /\ wg = concurrency
    /\ wpc = [w \in Workers |-> "select"]
    /\ item = [w \in Workers |-> NoItem]
    /\ retries = [w \in Workers |-> 0]
    /\ sigDelivered = FALSE
    /\ requested = 0
    /\ crawlEnd = "none"
    /\ endPage = 0
    /\ matched = <<>>
    /\ enq = <<>>
    /\ dropped = {}
    /\ handed = [d \in AllSized |-> 0]
    /\ files = {}
    /\ attempts = [w \in Workers |-> 0]
    /\ sleeps = [w \in Workers |-> <<>>]
    /\ dlFailed = FALSE
    /\ createFailed = FALSE
    /\ faultyItems = 0


Running == procState = "running"

Disturbances == faultyItems + (IF sigDelivered THEN 1 ELSE 0)

\* close(stop): closing a channel that is already closed panics.
CloseStop ==
    /\ closes' = closes + 1
    /\ IF stop
       THEN procState' = "panicked" /\ stop' = stop
       ELSE procState' = procState /\ stop' = TRUE

\* ------------------------------------------------------- signal goroutine
\* The OS delivers a signal while signal.Notify is in force; the channel
\* signals has one slot, a signal arriving while it is full is discarded.
\* (What the OS does with a signal after signal.Stop is outside the program.)
SignalDeliver ==
    /\ Running /\ sigpc # "done" /\ signals = 0
    /\ sigDelivered \/ Disturbances < MaxDisturbances
    /\ signals' = 1 /\ sigDelivered' = TRUE
    /\ UNCHANGED <<procState, stop, closes, finishing, sigpc, mpc, queue>>
    /\ UNCHANGED crawlVars /\ UNCHANGED workVars

\* case <-signals: ... finishing = true
SigReceive ==
    /\ Running /\ sigpc = "poll" /\ signals = 1
    /\ signals' = 0 /\ finishing' = TRUE /\ sigpc' = "close"
    /\ UNCHANGED <<procState, stop, closes, mpc, queue, sigDelivered>>
    /\ UNCHANGED crawlVars /\ UNCHANGED workVars

\* close(stop); signal.Stop(signals); return
SigClose ==
    /\ Running /\ sigpc = "close"
    /\ CloseStop
    /\ sigpc' = "done"
    /\ UNCHANGED <<finishing, signals, mpc, queue, sigDelivered>>
    /\ UNCHANGED crawlVars /\ UNCHANGED workVars

\* ------------------------------------------------------ main's drain loop
\* for !finishing: the flag is read without synchronisation, so the read may
\* return the initial false even after the signal goroutine wrote true.
MainSeesFinishing ==
    /\ Running /\ mpc = "check" /\ finishing
    /\ mpc' = "wait"
    /\ UNCHANGED <<procState, stop, closes, finishing, queue>>
    /\ UNCHANGED sigVars /\ UNCHANGED crawlVars /\ UNCHANGED workVars

MainSeesRunning ==
    /\ Running /\ mpc = "check"
    /\ mpc' = "len"
    /\ UNCHANGED <<procState, stop, closes, finishing, queue>>
    /\ UNCHANGED sigVars /\ UNCHANGED crawlVars /\ UNCHANGED workVars

\* Mutant: stop is closed without looking at the length of the channel.
MainDrain_NoLenCheck ==
    /\ Running /\ mpc = "len"
    /\ CloseStop
    /\ mpc' = "wait"
    /\ UNCHANGED <<finishing, queue>>
    /\ UNCHANGED sigVars /\ UNCHANGED crawlVars /\ UNCHANGED workVars

\* Mutant: the drain loop is left without closing stop.
MainDrain_NoClose ==
    /\ Running /\ mpc = "len" /\ Len(queue) = 0
    /\ mpc' = "wait"
    /\ UNCHANGED <<procState, stop, closes, finishing, queue>>
    /\ UNCHANGED sigVars /\ UNCHANGED crawlVars /\ UNCHANGED workVars

\* if len(grab_pictures) == 0 { close(stop); break }
MainDrain ==
    /\ Running /\ mpc = "len" /\ Len(queue) = 0
    /\ CloseStop
    /\ mpc' = "wait"
    /\ UNCHANGED <<finishing, queue>>
    /\ UNCHANGED sigVars /\ UNCHANGED crawlVars /\ UNCHANGED workVars

\* Mutant: the loop does not wait for the channel to be empty.
MainSleep_CloseEarly ==
    /\ Running /\ mpc = "len" /\ Len(queue) # 0
    /\ CloseStop
    /\ mpc' = "wait"
    /\ UNCHANGED <<finishing, queue>>
    /\ UNCHANGED sigVars /\ UNCHANGED crawlVars /\ UNCHANGED workVars

\* time.Sleep(1) and back to the loop condition
MainSleep ==
    /\ Running /\ mpc = "len" /\ Len(queue) # 0
    /\ mpc' = "check"
    /\ UNCHANGED <<procState, stop, closes, finishing, queue>>
    /\ UNCHANGED sigVars /\ UNCHANGED crawlVars /\ UNCHANGED workVars

\* wg.Wait() returns and main returns: the process ends.
MainExit ==
    /\ Running /\ mpc = "wait" /\ wg = 0
    /\ procState' = "exited"
    /\ UNCHANGED <<stop, closes, finishing, mpc, queue>>
    /\ UNCHANGED sigVars /\ UNCHANGED crawlVars /\ UNCHANGED workVars


\* ------------------------------------------------- fetchFlickrData (crawler)
\* The Sizes map of photo i of page p, whose key set is ph.
SizesOf(p, i, ph) == [l \in ph |-> Sized(p, i, l)]

\* Mutant: any photo with a size entry is taken.
HasWanted_AnySize(ph) == ph # {}

\* sized, ok := photo.Sizes[sizeWanted]; a missing key yields the zero value.
HasWanted(ph) == sizeWanted \in ph
Wanted(p, i, ph) == IF sizeWanted \in ph THEN SizesOf(p, i, ph)[sizeWanted] ELSE NoItem

\* The Sizes[sizeWanted] entries of a decoded page, in the order of Photos.
RECURSIVE WantedOfPage(_, _, _)
WantedOfPage(p, ps, i) ==
    IF i > Len(ps) THEN <<>>
    ELSE (IF sizeWanted \in ps[i] THEN <<Sized(p, i, sizeWanted)>> ELSE <<>>)
         \o WantedOfPage(p, ps, i + 1)

Crawling == Running /\ mpc = "crawl"

\* return from fetchFlickrData: main goes on to its drain loop
CrawlReturn(why) ==
    /\ cpc' = "returned" /\ crawlEnd' = why /\ endPage' = page
    /\ mpc' = "check"

\* Mutant: the error is logged and the function returns.
CrawlFatal_LogOnly(why) ==
    /\ procState' = procState /\ crawlEnd' = why /\ endPage' = page
    /\ cpc' = "returned" /\ mpc' = "check"

\* log.Fatalf: the process exits at once
CrawlFatal(why) ==
    /\ procState' = "fatal" /\ crawlEnd' = why /\ endPage' = page
    /\ UNCHANGED <<cpc, mpc>>

\* page <= maxPages is false: the loop ends and the function returns
CrawlPageLimit ==
    /\ Crawling /\ cpc = "page" /\ page > maxPages
    /\ CrawlReturn("pagelimit")
    /\ UNCHANGED <<procState, stop, closes, finishing, queue, page, photos, idx,
                   requested, matched, enq, dropped>>
    /\ UNCHANGED sigVars /\ UNCHANGED workVars

\* select { case <-stop: return; default: } at the head of a page
CrawlStopAtPage ==
    /\ Crawling /\ cpc = "page" /\ page <= maxPages /\ stop
    /\ CrawlReturn("stopped")
    /\ UNCHANGED <<procState, stop, closes, finishing, queue, page, photos, idx,
                   requested, matched, enq, dropped>>
    /\ UNCHANGED sigVars /\ UNCHANGED workVars

\* Mutant: the head of the page loop does not look at stop.
CrawlNextPage_IgnoreStop ==
    /\ Crawling /\ cpc = "page" /\ page <= maxPages
    /\ cpc' = "request"
    /\ UNCHANGED <<procState, stop, closes, finishing, queue, mpc, page, photos,
                   idx, requested, crawlEnd, endPage, matched, enq, dropped>>
    /\ UNCHANGED sigVars /\ UNCHANGED workVars

CrawlNextPage ==
    /\ Crawling /\ cpc = "page" /\ page <= maxPages /\ ~stop
    /\ cpc' = "request"
    /\ UNCHANGED <<procState, stop, closes, finishing, queue, mpc, page, photos,
                   idx, requested, crawlEnd, endPage, matched, enq, dropped>>
    /\ UNCHANGED sigVars /\ UNCHANGED workVars

\* createRequest fails: log.Fatalf
CrawlRequestError ==
    /\ Crawling /\ cpc = "request"
    /\ CrawlFatal("reqerr")
    /\ UNCHANGED <<stop, closes, finishing, queue, page, photos, idx, requested,
                   matched, enq, dropped>>
    /\ UNCHANGED sigVars /\ UNCHANGED workVars

\* client.Do fails: log.Fatalf
CrawlTransportError ==
    /\ Crawling /\ cpc = "request"
    /\ requested' = page
    /\ CrawlFatal("doerr")
    /\ UNCHANGED <<stop, closes, finishing, queue, page, photos, idx, matched,
                   enq, dropped>>
    /\ UNCHANGED sigVars /\ UNCHANGED workVars

\* Mutant: the page is skipped and the loop goes on with the next page.
CrawlNotJson_Continue ==
    /\ Crawling /\ cpc = "request"
    /\ requested' = page
    /\ crawlEnd' = "notjson" /\ endPage' = page
    /\ page' = page + 1 /\ cpc' = "page"
    /\ UNCHANGED <<procState, stop, closes, finishing, queue, mpc, photos, idx,
                   matched, enq, dropped>>
    /\ UNCHANGED sigVars /\ UNCHANGED workVars

\* Content-Type is not application/json: return
CrawlNotJson ==
    /\ Crawling /\ cpc = "request"
    /\ requested' = page
    /\ CrawlReturn("notjson")
    /\ UNCHANGED <<procState, stop, closes, finishing, queue, page, photos, idx,
                   matched, enq, dropped>>
    /\ UNCHANGED sigVars /\ UNCHANGED workVars

\* ioutil.ReadAll fails: log.Fatalf
CrawlReadError ==
    /\ Crawling /\ cpc = "request"
    /\ requested' = page
    /\ CrawlFatal("readerr")
    /\ UNCHANGED <<stop, closes, finishing, queue, page, photos, idx, matched,
                   enq, dropped>>
    /\ UNCHANGED sigVars /\ UNCHANGED workVars

\* Mutant: a body that cannot be decoded is fatal like a transport error.
CrawlBadJson_Fatal ==
    /\ Crawling /\ cpc = "request"
    /\ requested' = page
    /\ procState' = "fatal" /\ crawlEnd' = "badjson" /\ endPage' = page
    /\ UNCHANGED <<stop, closes, finishing, queue, mpc, cpc, page, photos, idx,
                   matched, enq, dropped>>
    /\ UNCHANGED sigVars /\ UNCHANGED workVars

\* json.Unmarshal fails: break, and the function returns
CrawlBadJson ==
    /\ Crawling /\ cpc = "request"
    /\ requested' = page
    /\ CrawlReturn("badjson")
    /\ UNCHANGED <<procState, stop, closes, finishing, queue, page, photos, idx,
                   matched, enq, dropped>>
    /\ UNCHANGED sigVars /\ UNCHANGED workVars

\* json.Unmarshal succeeds: range over result.Photos
CrawlDecoded ==
    /\ Crawling /\ cpc = "request"
    /\ \E ps \in PhotoLists :
          /\ photos' = ps
          /\ matched' = matched \o WantedOfPage(page, ps, 1)
    /\ requested' = page
    /\ idx' = 1
    /\ cpc' = "items"
    /\ UNCHANGED <<procState, stop, closes, finishing, queue, mpc, page,
                   crawlEnd, endPage, enq, dropped>>
    /\ UNCHANGED sigVars /\ UNCHANGED workVars

AtItem == Crawling /\ cpc = "items" /\ idx <= Len(photos)

\* the photo has no entry under sizeWanted: next photo
CrawlSkipItem ==
    /\ AtItem /\ ~HasWanted(photos[idx])
    /\ idx' = idx + 1
    /\ UNCHANGED <<procState, stop, closes, finishing, queue, mpc, cpc, page,
                   photos, requested, crawlEnd, endPage, matched, enq, dropped>>
    /\ UNCHANGED sigVars /\ UNCHANGED workVars

\* select: case <-stop is ready and is the case chosen
CrawlStopAtItem ==
    /\ AtItem /\ HasWanted(photos[idx]) /\ stop
    /\ CrawlReturn("stopped")
    /\ UNCHANGED <<procState, stop, closes, finishing, queue, page, photos, idx,
                   requested, matched, enq, dropped>>
    /\ UNCHANGED sigVars /\ UNCHANGED workVars

\* select: case pictures <- sized is ready (the channel has a free slot) and
\* is the case chosen; with stop closed too, select picks either ready case.
CrawlEnqueue ==
    /\ AtItem /\ HasWanted(photos[idx]) /\ Len(queue) < QueueCap
    /\ queue' = Append(queue, Wanted(page, idx, photos[idx]))
    /\ enq' = Append(enq, Wanted(page, idx, photos[idx]))
    /\ idx' = idx + 1
    /\ UNCHANGED <<procState, stop, closes, finishing, mpc, cpc, page, photos,
                   requested, crawlEnd, endPage, matched, dropped>>
    /\ UNCHANGED sigVars /\ UNCHANGED workVars

\* Mutant: a value offered to a full channel is buffered behind it.
CrawlDrop_Overfill ==
    /\ AtItem /\ HasWanted(photos[idx]) /\ ~stop /\ Len(queue) >= QueueCap
    /\ queue' = Append(queue, Wanted(page, idx, photos[idx]))
    /\ enq' = Append(enq, Wanted(page, idx, photos[idx]))
    /\ idx' = idx + 1
    /\ UNCHANGED <<procState, stop, closes, finishing, mpc, cpc, page, photos,
                   requested, crawlEnd, endPage, matched, dropped>>
    /\ UNCHANGED sigVars /\ UNCHANGED workVars

\* select: no case is ready, default: the value is discarded
CrawlDrop ==
    /\ AtItem /\ HasWanted(photos[idx]) /\ ~stop /\ Len(queue) >= QueueCap
    /\ dropped' = dropped \cup {Wanted(page, idx, photos[idx])}
    /\ idx' = idx + 1
    /\ UNCHANGED <<procState, stop, closes, finishing, queue, mpc, cpc, page,
                   photos, requested, crawlEnd, endPage, matched, enq>>
    /\ UNCHANGED sigVars /\ UNCHANGED workVars

\* One iteration of the range loop over result.Photos.
CrawlItemStep == CrawlSkipItem \/ CrawlStopAtItem \/ CrawlEnqueue \/ CrawlDrop

\* the range loop is over: page++
CrawlPageDone ==
    /\ Crawling /\ cpc = "items" /\ idx > Len(photos)
    /\ page' = page + 1
    /\ cpc' = "page"
    /\ UNCHANGED <<procState, stop, closes, finishing, queue, mpc, photos, idx,
                   requested, crawlEnd, endPage, matched, enq, dropped>>
    /\ UNCHANGED sigVars /\ UNCHANGED workVars

Crawler ==
    \/ CrawlPageLimit \/ CrawlStopAtPage \/ CrawlNextPage
    \/ CrawlRequestError \/ CrawlTransportError \/ CrawlNotJson
    \/ CrawlReadError \/ CrawlBadJson \/ CrawlDecoded
    \/ CrawlSkipItem \/ CrawlStopAtItem \/ CrawlEnqueue \/ CrawlDrop
    \/ CrawlPageDone

\* ------------------------------------------------ grabPictures (workers)
mainVars == <<stop, closes, finishing, mpc>>

\* Mutant: the backoff is computed from the attempt index itself.
Backoff_NoPlusOne(r) == BackoffFactor * r

\* time.Sleep(time.Duration(2 * (retries + 1)))
Backoff(r) == BackoffFactor * (r + 1)

\* Mutant: the value is read but left in the channel.
WDequeue_Peek(w) ==
    /\ Running /\ wpc[w] = "select" /\ queue # <<>>
    /\ item' = [item EXCEPT ![w] = Head(queue)]
    /\ handed' = [handed EXCEPT ![Head(queue)] = @ + 1]
    /\ wpc' = [wpc EXCEPT ![w] = "get"]
    /\ retries' = [retries EXCEPT ![w] = 0]
    /\ UNCHANGED <<procState, queue, wg, files, attempts, sleeps, dlFailed,
                   createFailed, faultyItems>>
    /\ UNCHANGED mainVars /\ UNCHANGED sigVars /\ UNCHANGED crawlVars

\* case sized := <-queue (chosen by select also when stop is closed)
WDequeue(w) ==
    /\ Running /\ wpc[w] = "select" /\ queue # <<>>
    /\ item' = [item EXCEPT ![w] = Head(queue)]
    /\ queue' = Tail(queue)
    /\ handed' = [handed EXCEPT ![Head(queue)] = @ + 1]
    /\ wpc' = [wpc EXCEPT ![w] = "get"]
    /\ retries' = [retries EXCEPT ![w] = 0]
    /\ UNCHANGED <<procState, wg, files, attempts, sleeps, dlFailed, createFailed,
                   faultyItems>>
    /\ UNCHANGED mainVars /\ UNCHANGED sigVars /\ UNCHANGED crawlVars

\* Mutant: the worker also looks at stop inside the retry loop and returns.
WStop_Anywhere(w) ==
    /\ Running /\ wpc[w] \in {"select", "get"} /\ stop
    /\ wpc' = [wpc EXCEPT ![w] = "done"]
    /\ wg' = wg - 1
    /\ UNCHANGED <<procState, queue, item, retries, handed, files, attempts,
                   sleeps, dlFailed, createFailed, faultyItems>>
    /\ UNCHANGED mainVars /\ UNCHANGED sigVars /\ UNCHANGED crawlVars

\* case <-stop: return, and the deferred wg.Done()
WStop(w) ==
    /\ Running /\ wpc[w] = "select" /\ stop
    /\ wpc' = [wpc EXCEPT ![w] = "done"]
    /\ wg' = wg - 1
    /\ UNCHANGED <<procState, queue, item, retries, handed, files, attempts,
                   sleeps, dlFailed, createFailed, faultyItems>>
    /\ UNCHANGED mainVars /\ UNCHANGED sigVars /\ UNCHANGED crawlVars

\* The environment lets an attempt for worker w's item fail: the item has
\* failed before, or the run's bound on disturbances is not reached.
MayFail(w) == retries[w] > 0 \/ Disturbances < MaxDisturbances

\* Mutant: the retry loop is left for the select as soon as stop is closed.
NextTry_StopAborts(w) ==
    /\ faultyItems' = IF retries[w] = 0 THEN faultyItems + 1 ELSE faultyItems
    /\ retries' = [retries EXCEPT ![w] = @ + 1]
    /\ wpc' = [wpc EXCEPT ![w] =
                 IF stop THEN "select"
                 ELSE IF retries[w] + 1 < MaxRetries THEN "get" ELSE "giveup"]

\* retries++ and the loop condition retries < 5; when it fails the loop is
\* left for the log line after it.
NextTry(w) ==
    /\ faultyItems' = IF retries[w] = 0 THEN faultyItems + 1 ELSE faultyItems
    /\ retries' = [retries EXCEPT ![w] = @ + 1]
    /\ wpc' = [wpc EXCEPT ![w] =
                 IF retries[w] + 1 < MaxRetries THEN "get" ELSE "giveup"]

\* http.Get returns an error: sleep, then the next try
WGetFail(w) ==
    /\ Running /\ wpc[w] = "get" /\ MayFail(w)
    /\ attempts' = [attempts EXCEPT ![w] = @ + 1]
    /\ sleeps' = [sleeps EXCEPT ![w] = Append(@, Backoff(retries[w]))]
    /\ dlFailed' = TRUE
    /\ NextTry(w)
    /\ UNCHANGED <<procState, queue, wg, item, handed, files, createFailed>>
    /\ UNCHANGED mainVars /\ UNCHANGED sigVars /\ UNCHANGED crawlVars

\* Mutant: a failed os.Create leaves the retry loop like a written file.
WCreateFail_Break(w) ==
    /\ Running /\ wpc[w] = "get" /\ MayFail(w)
    /\ createFailed' = TRUE
    /\ faultyItems' = IF retries[w] = 0 THEN faultyItems + 1 ELSE faultyItems
    /\ wpc' = [wpc EXCEPT ![w] = "select"]
    /\ item' = [item EXCEPT ![w] = NoItem]
    /\ retries' = [retries EXCEPT ![w] = 0]
    /\ attempts' = [attempts EXCEPT ![w] = 0]
    /\ sleeps' = [sleeps EXCEPT ![w] = <<>>]
    /\ UNCHANGED <<procState, queue, wg, handed, files, dlFailed>>
    /\ UNCHANGED mainVars /\ UNCHANGED sigVars /\ UNCHANGED crawlVars

\* http.Get succeeds, os.Create returns an error: the next try, without sleep
WCreateFail(w) ==
    /\ Running /\ wpc[w] = "get" /\ MayFail(w)
    /\ attempts' = [attempts EXCEPT ![w] = @ + 1]
    /\ createFailed' = TRUE
    /\ NextTry(w)
    /\ UNCHANGED <<procState, queue, wg, item, handed, files, sleeps, dlFailed>>
    /\ UNCHANGED mainVars /\ UNCHANGED sigVars /\ UNCHANGED crawlVars

\* Back to the select of the worker loop; the locals of the iteration die.
BackToSelect(w) ==
    /\ wpc' = [wpc EXCEPT ![w] = "select"]
    /\ item' = [item EXCEPT ![w] = NoItem]
    /\ retries' = [retries EXCEPT ![w] = 0]
    /\ attempts' = [attempts EXCEPT ![w] = 0]
    /\ sleeps' = [sleeps EXCEPT ![w] = <<>>]

\* http.Get and os.Create succeed: io.Copy into the file, break nextPicture
WSaved(w) ==
    /\ Running /\ wpc[w] = "get"
    /\ files' = files \cup {item[w]}
    /\ BackToSelect(w)
    /\ UNCHANGED <<procState, queue, wg, handed, dlFailed, createFailed, faultyItems>>
    /\ UNCHANGED mainVars /\ UNCHANGED sigVars /\ UNCHANGED crawlVars

\* Mutant: the worker returns after the hard-error log.
WGiveUp_Return(w) ==
    /\ Running /\ wpc[w] = "giveup"
    /\ wpc' = [wpc EXCEPT ![w] = "done"]
    /\ wg' = wg - 1
    /\ UNCHANGED <<procState, queue, item, retries, handed, files, attempts,
                   sleeps, dlFailed, createFailed, faultyItems>>
    /\ UNCHANGED mainVars /\ UNCHANGED sigVars /\ UNCHANGED crawlVars

\* log.Printf("could not fetch after %d retries -> assuming hard error")
WGiveUp(w) ==
    /\ Running /\ wpc[w] = "giveup"
    /\ BackToSelect(w)
    /\ UNCHANGED <<procState, queue, wg, handed, files, dlFailed, createFailed,
                   faultyItems>>
    /\ UNCHANGED mainVars /\ UNCHANGED sigVars /\ UNCHANGED crawlVars

Worker(w) ==
    \/ WDequeue(w) \/ WStop(w) \/ WGetFail(w) \/ WCreateFail(w)
    \/ WSaved(w) \/ WGiveUp(w)

SignalWatcher == SigReceive \/ SigClose

Main == MainSeesFinishing \/ MainSeesRunning \/ MainDrain \/ MainSleep \/ MainExit

Next ==
    \/ SignalDeliver
    \/ SigReceive \/ SigClose
    \/ MainSeesFinishing \/ MainSeesRunning \/ MainDrain \/ MainSleep \/ MainExit
    \/ CrawlPageLimit \/ CrawlStopAtPage \/ CrawlNextPage
    \/ CrawlRequestError \/ CrawlTransportError \/ CrawlNotJson
    \/ CrawlReadError \/ CrawlBadJson \/ CrawlDecoded
    \/ CrawlSkipItem \/ CrawlStopAtItem \/ CrawlEnqueue \/ CrawlDrop
    \/ CrawlPageDone
    \/ \E w \in Workers :
          \/ WDequeue(w) \/ WStop(w) \/ WGetFail(w) \/ WCreateFail(w)
          \/ WSaved(w) \/ WGiveUp(w)

Spec == Init /\ [][Next]_vars

\* Every goroutine that can take a step eventually takes one (the Go
\* scheduler is fair and every network call returns); the delivery of an OS
\* signal is left to the environment.
FairSpec ==
    /\ Spec
    /\ WF_vars(SignalWatcher)
    /\ WF_vars(Main)
    /\ WF_vars(Crawler)
    /\ \A w \in Workers : WF_vars(Worker(w))

TypeOK ==
    /\ procState \in {"running", "exited", "panicked", "fatal"}
    /\ stop \in BOOLEAN /\ finishing \in BOOLEAN
    /\ closes \in 0 .. 2
    /\ signals \in 0 .. 1
    /\ Len(queue) <= QueueCap
    /\ wg \in 0 .. concurrency
    /\ \A w \in Workers : retries[w] \in 0 .. MaxRetries


\* ================================================================= claims
Range(q) == {q[i] : i \in DOMAIN q}
AllWorkersDone == wg = 0 /\ \A w \in Workers : wpc[w] = "done"
CleanExit == procState = "exited" /\ AllWorkersDone

\* C1: the stop channel is closed at most once in every execution: the two
\* triggers (signal goroutine, main's drain loop) never both call close(stop),
\* and the panic of a second close is unreachable.
C1_StopSetAtMostOnce == closes <= 1 /\ procState # "panicked"

\* C2: once fetchFlickrData has returned, a run in which no OS signal is
\* delivered reaches the state where the channel is empty, stop is closed
\* (once, by main), every worker has left its loop and main has returned.
C2_DrainCorrectness ==
    (cpc = "returned") ~>
        (sigDelivered \/ (CleanExit /\ queue = <<>> /\ stop /\ closes = 1))

\* C2 witness: a run without signal ends cleanly after a completed crawl that
\* enqueued something and in which an item was abandoned.
C2_Witness ==
    /\ CleanExit /\ ~sigDelivered /\ crawlEnd = "pagelimit"
    /\ Len(enq) > 0 /\ dlFailed /\ Range(enq) # files

\* C3: an OS signal delivered at any point leads to exactly one close of stop
\* and to a clean exit: every worker leaves its loop and main returns.
C3_InterruptCleanExit == sigDelivered ~> (CleanExit /\ closes = 1)

\* C4: whenever the process has ended, every worker started by main has left
\* its loop and run wg.Done.
C4_BarrierBeforeExit == procState # "running" => AllWorkersDone

\* C5: every value sent on the channel is received at most once, and no two
\* workers hold the same value.
C5_NoDoubleProcessing ==
    /\ \A d \in AllSized :
          /\ handed[d] <= 1
          /\ handed[d] <= Cardinality({i \in DOMAIN enq : enq[i] = d})
    /\ \A v, w \in Workers : v # w /\ item[v] # NoItem => item[v] # item[w]

\* C5 witness: both workers hold a dequeued value at the same time.
C5_Witness == \A w \in Workers : wpc[w] = "get" /\ item[w] \in Range(enq)

\* C6: a worker makes at most 5 GET attempts for an item; as long as every
\* attempt failed at transport level the sleeps so far are 2,4,6,8,10 in that
\* order; after the fifth failed attempt the item is abandoned (the hard-error
\* log is reached, no sixth attempt).
C6_BoundedRetry ==
    \A w \in Workers :
       /\ attempts[w] <= 5
       /\ wpc[w] = "get" => attempts[w] < 5
       /\ wpc[w] = "giveup" => attempts[w] = 5
       /\ Len(sleeps[w]) = attempts[w] =>
             sleeps[w] = SubSeq(<<2, 4, 6, 8, 10>>, 1, attempts[w])

\* C6 witness: an item is abandoned after five transport failures.
C6_Witness == \E w \in Workers : wpc[w] = "giveup" /\ Len(sleeps[w]) = 5

\* C7: a worker leaves its loop only from the select, with stop closed; after
\* the hard-error log of an abandoned item it is back at the select.
C7_WorkerExitsOnlyOnStop ==
    [][\A w \in Workers :
          /\ (wpc[w] # "done" /\ wpc'[w] = "done") => (wpc[w] = "select" /\ stop)
          /\ (wpc[w] = "giveup" /\ wpc'[w] # "giveup") => wpc'[w] = "select"]_vars

\* C7 witness: an item has been abandoned (received, not written, held by no
\* worker) and every worker is still in its loop.
C7_Witness ==
    /\ \E d \in AllSized :
          handed[d] = 1 /\ d \notin files /\ \A w \in Workers : item[w] # d
    /\ \A w \in Workers : wpc[w] \in {"select", "get"}

\* C8: when the response for page p is not application/json, fetchFlickrData
\* has returned, nothing from page p was sent on the channel, and p stays the
\* highest page requested.
C8_EndOfResults ==
    crawlEnd = "notjson" =>
        /\ cpc = "returned"
        /\ requested = endPage /\ page = endPage
        /\ \A i \in DOMAIN enq : enq[i][1] # endPage

\* C8 witness: the heuristic fired below the page limit and main went on.
C8_Witness == crawlEnd = "notjson" /\ endPage < maxPages /\ mpc = "wait"

\* C9: every send on the channel sends Sizes[sizeWanted] of the photo being
\* ranged over, and that photo's Sizes map has the key sizeWanted.
C9_VariantFiltering ==
    [][enq' # enq =>
          /\ cpc = "items" /\ idx \in DOMAIN photos
          /\ sizeWanted \in photos[idx]
          /\ enq' = Append(enq, Sized(page, idx, sizeWanted))
          /\ queue' = Append(queue, Sized(page, idx, sizeWanted))]_vars

\* C9 witness: a photo without the wanted key was passed over and a photo with
\* it was sent, on the same page.
C9_Witness ==
    /\ cpc = "items"
    /\ \E i \in 1 .. (idx - 1) : sizeWanted \notin photos[i]
    /\ \E i \in DOMAIN enq : enq[i][1] = page

\* The end state of the end-to-end scenario: exactly the matching values were
\* sent, each was written to a file, every worker is done, main has returned.
AllFetched ==
    /\ CleanExit
    /\ enq = matched /\ dropped = {}
    /\ files = Range(enq)
    /\ queue = <<>>

C11_NoDequeueAfterStop == [][stop => handed' = handed /\ Len(queue') >= Len(queue)]_vars

\* C12: in every state in which stop is closed, nothing is sent on the
\* channel, also when it has a free slot.
C12_NoEnqueueAfterStop == [][stop => enq' = enq]_vars

\* C13: when stop is closed and fetchFlickrData is at the check at the head of
\* a page iteration, its next step is the return: no request is issued for
\* that page or a later one.
C13_NoPageFetchAfterStop ==
    [][(stop /\ cpc = "page") =>
          /\ cpc' \in {"page", "returned"}
          /\ requested' = requested /\ page' = page]_vars

\* C13 witness: fetchFlickrData returned from the check at the head of a page
\* below the page limit, after an earlier page had been requested.
C13_Witness ==
    /\ crawlEnd = "stopped" /\ cpc = "returned"
    /\ endPage <= maxPages /\ requested = endPage - 1 /\ requested >= 1

\* Some http.Get for worker w's current item returned without error: every
\* failed GET is followed by a sleep, so there are more attempts than sleeps.
GetSucceeded(w) == attempts[w] > Len(sleeps[w])

\* C14 as stated: once a GET for the dequeued item has succeeded, the worker
\* makes no further attempt for it, also when os.Create failed.
C14_NoAttemptAfterGet_AsStated ==
    [][\A w \in Workers : GetSucceeded(w) => ~(attempts'[w] > attempts[w])]_vars

\* A step of worker w that ends an attempt without writing a file and without
\* sleeping: http.Get succeeded and os.Create failed.
CreateFailStep(w) ==
    /\ wpc[w] = "get" /\ files' = files
    /\ Len(sleeps'[w]) <= Len(sleeps[w])
    /\ <<wpc'[w], retries'[w], attempts'[w]>> # <<wpc[w], retries[w], attempts[w]>>

\* C14 amended: a worker never goes on with an item whose file was written;
\* a failed os.Create is swallowed and does not leave the retry loop: it uses
\* up one try and the next attempt follows without sleep, up to 5 attempts.
C14_NoAttemptAfterSave ==
    [][\A w \in Workers :
          /\ wpc'[w] \in {"get", "giveup"} => item'[w] \notin files'
          /\ CreateFailStep(w) =>
                /\ item'[w] = item[w]
                /\ retries'[w] = retries[w] + 1
                /\ attempts'[w] = attempts[w] + 1
                /\ wpc'[w] = IF retries[w] + 1 < 5 THEN "get" ELSE "giveup"]_vars

\* C14 witness: after a GET that succeeded and a failed os.Create the worker
\* is about to make another attempt for the same item.
C14_Witness ==
    \E w \in Workers : wpc[w] = "get" /\ GetSucceeded(w) /\ item[w] \in Range(enq)

\* C15: the channel never holds more than its capacity; at every photo the
\* crawler has a step to take (it never blocks on the send); a value offered
\* to a full channel with stop open is discarded, the crawler goes on with the
\* next photo, and a discarded value is never sent or buffered later.
C15_LossyEnqueue ==
    /\ [](/\ Len(queue) <= QueueCap
          /\ dropped \cap (Range(enq) \cup Range(queue)) = {}
          /\ AtItem => ENABLED CrawlItemStep)
    /\ [][(/\ AtItem /\ sizeWanted \in photos[idx]
           /\ ~stop /\ Len(queue) >= QueueCap
           /\ <<idx', cpc'>> # <<idx, cpc>>) =>
              /\ dropped' = dropped \cup {Sized(page, idx, sizeWanted)}
              /\ idx' = idx + 1 /\ cpc' = cpc /\ page' = page
              /\ queue' = queue /\ enq' = enq]_vars

\* C15 witness: a value was discarded at a full channel and the crawler went
\* on and sent the value of a later photo.
C15_Witness ==
    \E d \in dropped : \E i \in DOMAIN enq :
       enq[i][1] > d[1] \/ (enq[i][1] = d[1] /\ enq[i][2] > d[2])

\* C16: a worker that has received a value leaves the retry loop only by
\* writing the file or after 5 attempts, never leaves its loop from within an
\* item, and (as long as the process lives) does reach the end of the retry
\* sequence, whether or not stop is closed in the meantime.
C16_DequeueCommits ==
    /\ [][\A w \in Workers :
             /\ (wpc[w] = "get" /\ wpc'[w] # "get") =>
                   \/ wpc'[w] = "select" /\ files' = files \cup {item[w]}
                   \/ wpc'[w] = "giveup" /\ attempts'[w] = 5
             /\ wpc[w] \in {"get", "giveup"} => wpc'[w] # "done"]_vars
    /\ \A w \in Workers : (wpc[w] = "get") ~> (wpc[w] # "get" \/ ~Running)

\* C16 witness: stop is closed and a worker is between two attempts of the
\* item it holds.
C16_Witness ==
    \E w \in Workers :
       stop /\ Running /\ wpc[w] = "get" /\ attempts[w] >= 1 /\ attempts[w] < 5

FatalEnds == {"reqerr", "doerr", "readerr"}

\* C17: when building the request, performing it or reading the body fails
\* for a page, the process ends at that step: main never reaches its drain
\* loop or wg.Wait, and from then on no page is requested, nothing is sent
\* and no worker is waited for.
C17_FatalAbortsRun ==
    /\ [](crawlEnd \in FatalEnds =>
             /\ procState = "fatal"
             /\ mpc = "crawl" /\ cpc = "request" /\ page = endPage
             /\ requested \in {endPage - 1, endPage}
             /\ (crawlEnd # "reqerr" => requested = endPage))
    /\ [](procState = "fatal" => crawlEnd \in FatalEnds)
    /\ [][procState = "fatal" => UNCHANGED <<requested, enq, queue, wg, wpc>>]_vars

\* C17 witness: reading the body of the second page fails while a worker is
\* in the middle of a download and values are still in the channel.
C17_Witness ==
    /\ procState = "fatal" /\ crawlEnd = "readerr" /\ endPage = 2
    /\ queue # <<>> /\ \E w \in Workers : wpc[w] = "get"

\* C18: when the body of page p cannot be decoded, fetchFlickrData has
\* returned normally, nothing of page p was sent and p stays the highest
\* page requested; the run then drains and stops as after a completed crawl
\* (unless an OS signal interferes).
C18_DecodeFailureIsSoft ==
    /\ [](crawlEnd = "badjson" =>
             /\ cpc = "returned" /\ procState # "fatal" /\ mpc # "crawl"
             /\ requested = endPage /\ page = endPage
             /\ \A i \in DOMAIN enq : enq[i][1] # endPage)
    /\ (crawlEnd = "badjson") ~>
          (sigDelivered \/ (CleanExit /\ queue = <<>> /\ closes = 1))

\* C18 witness: decoding failed below the page limit, after values of an
\* earlier page were sent, and the run ended cleanly without a signal.
C18_Witness ==
    /\ crawlEnd = "badjson" /\ endPage < maxPages + 1 /\ endPage > 1
    /\ Len(enq) > 0 /\ ~sigDelivered /\ CleanExit

\* C19: close(stop) is called only by the signal goroutine after it received
\* an OS signal (and set finishing), or by main in its drain loop after
\* fetchFlickrData has returned and len(grab_pictures) was zero; main never
\* calls it while the crawler runs or while the channel holds a value.
C19_StopOnlyByTriggers ==
    /\ [][closes' # closes =>
            \/ /\ sigpc = "close" /\ sigpc' = "done"
               /\ sigDelivered /\ finishing /\ mpc' = mpc
            \/ /\ mpc = "len" /\ mpc' = "wait" /\ sigpc' = sigpc
               /\ cpc = "returned" /\ Len(queue) = 0]_vars
    /\ [](stop => closes >= 1)
    /\ [](mpc \in {"len", "wait"} => cpc = "returned")

\* C19 witness: main closed stop, no OS signal was delivered, and values had
\* passed through the channel before.
C19_Witness ==
    /\ stop /\ closes = 1 /\ ~sigDelivered /\ sigpc # "done" /\ mpc = "wait"
    /\ Len(enq) > 0

\* C20: after fetchFlickrData has returned the channel never grows; in a run
\* without OS signal, once stop is closed the channel is empty and every
\* value sent was received by exactly one worker; a worker returns only from
\* its select, never from inside the retry loop, so every value sent that
\* has no file went through a failed attempt and the whole retry sequence.
C20_NoLossOnDrain ==
    /\ [][cpc = "returned" => Len(queue') <= Len(queue)]_vars
    /\ []((stop /\ ~sigDelivered) =>
             /\ cpc = "returned" /\ queue = <<>>
             /\ \A i \in DOMAIN enq : handed[enq[i]] = 1)
    /\ [][\A w \in Workers :
            (wpc[w] # "done" /\ wpc'[w] = "done") =>
                (wpc[w] = "select" /\ item[w] = NoItem)]_vars
    /\ []((AllWorkersDone /\ ~sigDelivered) =>
             Cardinality(Range(enq) \ files) <= faultyItems)

\* C20 witness: a run without OS signal ended with every worker returned,
\* several values sent, one of them given up after its retries.
C20_Witness ==
    /\ CleanExit /\ ~sigDelivered /\ stop
    /\ Len(enq) >= 2 /\ faultyItems = 1
    /\ Cardinality(Range(enq) \ files) = 1

====
